---- MODULE Spec2Model ----
(***************************************************************************)
(* Proof-of-work chain of src/main.rs: Block (hash, mine, new) and         *)
(* Blockchain (new, create_genesis, is_block_valid, is_chain_valid,        *)
(* try_add_block).                                                         *)
(*                                                                         *)
(* Strings are sequences of character codes, so that format!'s             *)
(* concatenation and starts_with are computed character by character.      *)
(***************************************************************************)
EXTENDS Integers, Sequences, FiniteSets, TLC

VARIABLES
    blocks,     \* Blockchain.blocks: Vec<Block>
    panicked,   \* the process has aborted (an expect or an overflow check failed)
    build,      \* "debug": overflow checks on; "release": u64 arithmetic wraps
    call,       \* the last operation: its name, its Block (argument or result),
                \* the chain before it, and how it returned
    genesis_calls,  \* how many times create_genesis has run
    tampered,   \* the field of blocks[2] that was overwritten in place, or "none"
    mined,      \* per miner: the block it holds and the chain length it was mined at
    order       \* the miners' try_add_block calls, in the order they were served

vars == <<blocks, panicked, build, call, genesis_calls, tampered, mined, order>>

\* ------------------------------------------------------------------ bounds
\* stand-in width of the u64 field `id` (ids are 0 .. 2^IdBits - 1)
IdBits == 5
\* stand-in width of the u64 `nonce` counter of mine
NonceBits == 4
\* the clock returns a second in 0 .. MaxTimestamp
MaxTimestamp == 1
\* the caller stops growing the chain at MaxLen blocks
MaxLen == 3
\* the digit after the digest's four leading zeros is in 0 .. LeadRange - 1
LeadRange == 4

\* the driver loop of main is followed for MaxIterations iterations
MaxIterations == 21
\* main.rs:168: the chain length is tested modulo 10
AuditPeriod == 10

RECURSIVE Pow2(_)
Pow2(n) == IF n = 0 THEN 1 ELSE 2 * Pow2(n - 1)

IdMax == Pow2(IdBits) - 1
NonceMax == Pow2(NonceBits) - 1

\* ----------------------------------------------------------------- strings
\* A string is the sequence of its characters' codes.  A character's code is
\* its place in Alphabet, counted from 0, so a hex digit's code is its value.
Alphabet == <<"0", "1", "2", "3", "4", "5", "6", "7", "8", "9",
              "a", "b", "c", "d", "e", "f",
              "g", "n", "s", "i", "H", "l", "o", "-", "x">>

Chr(c) == (CHOOSE i \in 1..Len(Alphabet) : Alphabet[i] = c) - 1
Str(s) == [i \in 1..Len(s) |-> Chr(s[i])]

GENESIS == Str(<<"g", "e", "n", "e", "s", "i", "s">>)
HELLO == Str(<<"H", "e", "l", "l", "o">>)
HELLO1 == Str(<<"H", "e", "l", "l", "o", "1">>)
MINUS == Str(<<"-">>)
JUNK == Str(<<"x">>)

\* main.rs:7
DIFFICULTY_PREFIX == Str(<<"0", "0", "0", "0", "0">>)

\* str::starts_with
starts_with(s, p) == Len(s) >= Len(p) /\ SubSeq(s, 1, Len(p)) = p

\* Display of an unsigned integer: its decimal digits, no padding
RECURSIVE FmtNat(_)
FmtNat(n) == IF n < 10 THEN <<n>> ELSE Append(FmtNat(n \div 10), n % 10)

\* Display of a signed integer (i64 timestamp): a leading '-' when negative
FmtInt(n) == IF n < 0 THEN MINUS \o FmtNat(-n) ELSE FmtNat(n)

\* ------------------------------------------------------------------ digest
\* the sum of the codes s[lo] .. s[hi], by halves
RECURSIVE CodeSumTo(_, _, _)
CodeSumTo(s, lo, hi) ==
    IF lo > hi THEN 0
    ELSE IF lo = hi THEN s[lo]
    ELSE LET mid == (lo + hi) \div 2
         IN  CodeSumTo(s, lo, mid) + CodeSumTo(s, mid + 1, hi)

CodeSum(s) == CodeSumTo(s, 1, Len(s))

\* Sha256 followed by format!("{:x}"): a lowercase hex rendering of a digest
\* of the input.  The digest is idealised as collision free (it carries its
\* preimage after the leading digits), and its leading hex digits are a
\* checksum of the input: four zeros and then one digit that is zero for one
\* input in LeadRange.
Sha256Hex(s) == <<0, 0, 0, 0, CodeSum(s) % LeadRange>> \o s

\* ------------------------------------------------------------------- Block
\* Block::hash that puts a separator between the fields
Block_hash_delimited(id, previous_hash, timestamp, data, nonce) ==
    Sha256Hex(FmtNat(id) \o MINUS \o previous_hash \o MINUS \o FmtInt(timestamp)
              \o MINUS \o data \o MINUS \o FmtNat(nonce))

\* Block::hash that leaves data out of the hashed string
Block_hash_no_data(id, previous_hash, timestamp, data, nonce) ==
    Sha256Hex(FmtNat(id) \o previous_hash \o FmtInt(timestamp) \o FmtNat(nonce))

\* Block::hash, main.rs:37-43
Block_hash(id, previous_hash, timestamp, data, nonce) ==
    LET unified_block_data ==
            FmtNat(id) \o previous_hash \o FmtInt(timestamp) \o data \o FmtNat(nonce)
    IN  Sha256Hex(unified_block_data)

\* Block::mine, main.rs:45-58: the loop from the current nonce on.  `found`
\* is FALSE when nonce += 1 would leave the counter's range before a digest
\* with the prefix was seen.
RECURSIVE mine_loop(_, _, _, _, _)
mine_loop(id, previous_hash, timestamp, data, nonce) ==
    LET hash == Block_hash(id, previous_hash, timestamp, data, nonce)
    IN  IF starts_with(hash, DIFFICULTY_PREFIX)
        THEN [found |-> TRUE, hash |-> hash, nonce |-> nonce]
        ELSE IF nonce = NonceMax
        THEN [found |-> FALSE, hash |-> hash, nonce |-> nonce]
        ELSE mine_loop(id, previous_hash, timestamp, data, nonce + 1)

\* Block::mine whose search starts at nonce 1
Block_mine_from_1(id, previous_hash, timestamp, data) ==
    mine_loop(id, previous_hash, timestamp, data, 1)

\* Block::mine that increments the nonce once more before returning
Block_mine_late(id, previous_hash, timestamp, data) ==
    LET m == mine_loop(id, previous_hash, timestamp, data, 0)
    IN  [m EXCEPT !.nonce = m.nonce + 1]

Block_mine(id, previous_hash, timestamp, data) ==
    mine_loop(id, previous_hash, timestamp, data, 0)

MkBlock(id, hash, previous_hash, timestamp, data, nonce) ==
    [id |-> id, hash |-> hash, previous_hash |-> previous_hash,
     timestamp |-> timestamp, data |-> data, nonce |-> nonce]

\* Block::new that hashes once at nonce 0 and does not search
Block_new_unmined(id, previous_hash, data, timestamp) ==
    MkBlock(id, Block_hash(id, previous_hash, timestamp, data, 0),
            previous_hash, timestamp, data, 0)

\* Block::new, main.rs:23-35, with the clock's reading as a parameter
Block_new(id, previous_hash, data, timestamp) ==
    LET m == Block_mine(id, previous_hash, timestamp, data)
    IN  MkBlock(id, m.hash, previous_hash, timestamp, data, m.nonce)

\* -------------------------------------------------------------- Blockchain
Last(s) == s[Len(s)]

\* Blockchain::new, main.rs:62-64
Blockchain_new == <<>>

\* `previous_block.id + 1` on u64 (main.rs:89): the sum aborts the process
\* in a build with overflow checks and wraps otherwise
add_one_overflows(id) == id = IdMax
wrapping_add_one(id) == (id + 1) % (IdMax + 1)

\* is_block_valid with the link to the predecessor's hash left out
is_block_valid_no_link(block, previous_block) ==
    /\ block.id = wrapping_add_one(previous_block.id)
    /\ starts_with(block.hash, DIFFICULTY_PREFIX)
    /\ Block_hash(block.id, block.previous_hash, block.timestamp,
                  block.data, block.nonce) = block.hash

\* is_block_valid with the difficulty check left out
is_block_valid_no_pow(block, previous_block) ==
    /\ block.id = wrapping_add_one(previous_block.id)
    /\ block.previous_hash = previous_block.hash
    /\ Block_hash(block.id, block.previous_hash, block.timestamp,
                  block.data, block.nonce) = block.hash

\* is_block_valid with the id check left out
is_block_valid_no_id(block, previous_block) ==
    /\ starts_with(block.hash, DIFFICULTY_PREFIX)
    /\ block.previous_hash = previous_block.hash
    /\ Block_hash(block.id, block.previous_hash, block.timestamp,
                  block.data, block.nonce) = block.hash

\* Blockchain::is_block_valid, main.rs:88-106: the boolean it returns when
\* the sum does not abort
is_block_valid(block, previous_block) ==
    /\ block.id = wrapping_add_one(previous_block.id)
    /\ starts_with(block.hash, DIFFICULTY_PREFIX)
    /\ block.previous_hash = previous_block.hash
    /\ Block_hash(block.id, block.previous_hash, block.timestamp,
                  block.data, block.nonce) = block.hash

\* the outcome of a call of is_block_valid: "true", "false" or "panic"
is_block_valid_outcome(block, previous_block, b) ==
    IF b = "debug" /\ add_one_overflows(previous_block.id) THEN "panic"
    ELSE IF is_block_valid(block, previous_block) THEN "true"
    ELSE "false"

\* Blockchain::is_chain_valid, main.rs:108-118: the loop from block_index on
RECURSIVE chain_scan(_, _, _)
chain_scan(bs, block_index, b) ==
    IF block_index >= Len(bs) + 1 THEN "true"
    ELSE LET r == is_block_valid_outcome(bs[block_index], bs[block_index - 1], b)
         IN  IF r = "true" THEN chain_scan(bs, block_index + 1, b) ELSE r

\* is_chain_valid whose loop starts one index late
is_chain_valid_from_2(bs, b) == chain_scan(bs, 3, b)

\* is_chain_valid that also checks the first block's own hash
is_chain_valid_checks_genesis(bs, b) ==
    IF bs # <<>> /\ ~(/\ starts_with(bs[1].hash, DIFFICULTY_PREFIX)
                      /\ bs[1].hash = Block_hash(bs[1].id, bs[1].previous_hash,
                                                 bs[1].timestamp, bs[1].data,
                                                 bs[1].nonce))
    THEN "false"
    ELSE chain_scan(bs, 2, b)

\* is_chain_valid with a check that the chain is not empty
is_chain_valid_nonempty(bs, b) == IF bs = <<>> THEN "panic" ELSE chain_scan(bs, 2, b)

is_chain_valid(bs, b) == chain_scan(bs, 2, b)

\* ------------------------------------------------------------- the caller
Timestamps == 0..MaxTimestamp
Builds == {"debug", "release"}

NoBlock == MkBlock(0, <<>>, <<>>, 0, <<>>, 0)
NoCall == [op |-> "Blockchain::new", arg |-> NoBlock, pre |-> <<>>, ret |-> "unit"]
Called(op, arg, pre, ret) == [op |-> op, arg |-> arg, pre |-> pre, ret |-> ret]

\* The blocks a caller hands to try_add_block: every combination of a right
\* and a wrong value of each field, relative to the chain's tip.
Candidates(bs) ==
    LET tip_id == IF bs = <<>> THEN 0 ELSE Last(bs).id
        tip_hash == IF bs = <<>> THEN GENESIS ELSE Last(bs).hash
        bases == { [id |-> id, prev |-> prev, t |-> t, data |-> data,
                    m |-> Block_mine(id, prev, t, data)]
                   : <<id, prev, t, data>> \in
                       {wrapping_add_one(tip_id), tip_id} \X {tip_hash, GENESIS}
                         \X Timestamps \X {HELLO} }
    IN  UNION { { MkBlock(c.id, h, c.prev, c.t, c.data, n) :
                    <<n, h>> \in
                      { <<c.m.nonce, c.m.hash>>,
                        <<c.m.nonce, DIFFICULTY_PREFIX \o JUNK>>,
                        <<0, Block_hash(c.id, c.prev, c.t, c.data, 0)>>,
                        <<0, c.m.hash>> } }
              : c \in bases }

Miners == {1, 2}
Idle == [block |-> NoBlock, base |-> 0, ready |-> FALSE]

Init ==
    /\ blocks = Blockchain_new
    /\ panicked = FALSE
    /\ build \in Builds
    /\ call = NoCall
    /\ genesis_calls = 0
    /\ tampered = "none"
    /\ mined = [m \in Miners |-> Idle]
    /\ order = <<>>

\* create_genesis that takes nonce 0 without searching
create_genesis_unmined(timestamp) ==
    LET genesis_block == MkBlock(0, Block_hash(0, GENESIS, timestamp, GENESIS, 0),
                                 GENESIS, timestamp, GENESIS, 0)
    IN  /\ blocks' = Append(blocks, genesis_block)
        /\ call' = Called("create_genesis", genesis_block, blocks, "unit")
        /\ genesis_calls' = genesis_calls + 1
        /\ UNCHANGED <<panicked, build>>

\* Blockchain::create_genesis, main.rs:66-86
create_genesis(timestamp) ==
    \E m \in {Block_mine(0, GENESIS, timestamp, GENESIS)} :
        LET genesis_block == MkBlock(0, m.hash, GENESIS, timestamp, GENESIS, m.nonce)
        IN  IF m.found
            THEN /\ blocks' = Append(blocks, genesis_block)
                 /\ call' = Called("create_genesis", genesis_block, blocks, "unit")
                 /\ genesis_calls' = genesis_calls + 1
                 /\ UNCHANGED <<panicked, build>>
            ELSE /\ build = "debug"
                 /\ panicked' = TRUE
                 /\ call' = Called("create_genesis", genesis_block, blocks, "panic")
                 /\ UNCHANGED <<blocks, build, genesis_calls>>

\* try_add_block that appends without asking is_block_valid
try_add_block_unchecked(block) ==
    /\ blocks' = Append(blocks, block)
    /\ panicked' = FALSE
    /\ call' = [op |-> "try_add_block", arg |-> block, pre |-> blocks, ret |-> "unit"]
    /\ UNCHANGED <<build, genesis_calls>>

\* try_add_block that takes a default predecessor when the chain is empty
try_add_block_default(block) ==
    LET previous_block == IF blocks = <<>> THEN NoBlock ELSE Last(blocks)
    IN  \E r \in {is_block_valid_outcome(block, previous_block, build)} :
          /\ blocks' = IF r = "true" THEN Append(blocks, block) ELSE blocks
          /\ panicked' = (r = "panic")
          /\ call' = [op |-> "try_add_block", arg |-> block, pre |-> blocks,
                      ret |-> IF r = "panic" THEN "panic" ELSE "unit"]
          /\ UNCHANGED <<build, genesis_calls>>

\* try_add_block that overwrites the tip with a valid block
try_add_block_replace_tip(block) ==
    IF blocks = <<>>
    THEN /\ panicked' = TRUE
         /\ call' = Called("try_add_block", block, blocks, "panic")
         /\ UNCHANGED <<blocks, build, genesis_calls>>
    ELSE \E r \in {is_block_valid_outcome(block, Last(blocks), build)} :
           /\ blocks' = IF r = "true" THEN [blocks EXCEPT ![Len(blocks)] = block]
                                      ELSE blocks
           /\ panicked' = (r = "panic")
           /\ call' = Called("try_add_block", block, blocks,
                             IF r = "panic" THEN "panic" ELSE "unit")
           /\ UNCHANGED <<build, genesis_calls>>

\* Blockchain::try_add_block, main.rs:120-135
try_add_block(block) ==
    IF blocks = <<>>
    THEN /\ panicked' = TRUE
         /\ call' = [op |-> "try_add_block", arg |-> block, pre |-> blocks,
                     ret |-> "panic"]
         /\ UNCHANGED <<blocks, build, genesis_calls>>
    ELSE LET previous_block == Last(blocks)
         IN  \E r \in {is_block_valid_outcome(block, previous_block, build)} :
               /\ blocks' = IF r = "true" THEN Append(blocks, block) ELSE blocks
               /\ panicked' = (r = "panic")
               /\ call' = [op |-> "try_add_block", arg |-> block, pre |-> blocks,
                           ret |-> IF r = "panic" THEN "panic" ELSE "unit"]
               /\ UNCHANGED <<build, genesis_calls>>

\* is_chain_valid that cuts an invalid chain back to its first block
audit_truncating ==
    \E r \in {is_chain_valid(blocks, build)} :
        /\ call' = Called("is_chain_valid", NoBlock, blocks, r)
        /\ panicked' = (r = "panic")
        /\ blocks' = IF r = "false" THEN SubSeq(blocks, 1, 1) ELSE blocks
        /\ UNCHANGED <<build, genesis_calls>>

\* a call of is_chain_valid by the caller
audit ==
    \E r \in {is_chain_valid(blocks, build)} :
        /\ call' = [op |-> "is_chain_valid", arg |-> NoBlock, pre |-> blocks,
                    ret |-> r]
        /\ panicked' = (r = "panic")
        /\ UNCHANGED <<blocks, build, genesis_calls>>

CreateGenesis ==
    /\ ~panicked
    /\ tampered = "none"
    /\ Len(blocks) < MaxLen
    /\ \E timestamp \in Timestamps : create_genesis(timestamp)
    /\ UNCHANGED <<tampered, mined, order>>

TryAddBlock ==
    /\ ~panicked
    /\ Len(blocks) < MaxLen
    /\ \E block \in Candidates(blocks) : try_add_block(block)
    /\ UNCHANGED <<tampered, mined, order>>

IsChainValid ==
    /\ ~panicked
    /\ audit
    /\ UNCHANGED <<tampered, mined, order>>

Next == CreateGenesis \/ TryAddBlock \/ IsChainValid

\* any caller of the chain's three operations
Spec == Init /\ [][Next]_vars

\* ------------------------------------------------- Block's functions alone
MineIds == 0..IdMax
MinePreviousHashes == {GENESIS, <<>>, Sha256Hex(GENESIS)}
MineTimestamps == -1..MaxTimestamp
MineData == {GENESIS, HELLO, HELLO1, <<>>}

\* a call of Block::mine (main.rs:45-58); the Block recorded holds the
\* arguments and the pair returned
BlockMine ==
    /\ call = NoCall
    /\ \E id \in MineIds, previous_hash \in MinePreviousHashes,
          timestamp \in MineTimestamps, data \in MineData :
         \E m \in {Block_mine(id, previous_hash, timestamp, data)} :
           /\ m.found \/ build = "debug"
           /\ panicked' = ~m.found
           /\ call' = Called("mine",
                             MkBlock(id, m.hash, previous_hash, timestamp, data, m.nonce),
                             <<>>, IF m.found THEN "unit" ELSE "panic")
    /\ UNCHANGED <<blocks, build, genesis_calls, tampered, mined, order>>

\* a call of Block::new (main.rs:23-35)
BlockNew ==
    /\ call = NoCall
    /\ \E id \in MineIds, previous_hash \in MinePreviousHashes,
          timestamp \in Timestamps, data \in MineData :
         /\ Block_mine(id, previous_hash, timestamp, data).found
         /\ call' = Called("Block::new", Block_new(id, previous_hash, data, timestamp),
                           <<MkBlock(id, <<>>, previous_hash, timestamp, data, 0)>>,
                           "unit")
    /\ UNCHANGED <<blocks, panicked, build, genesis_calls, tampered, mined, order>>

NextBlock == BlockMine \/ BlockNew

SpecBlock == Init /\ [][NextBlock]_vars

\* a call of Block::hash (main.rs:37-43), and a second one after it; the
\* Block recorded holds the arguments and the digest, the chain slot holds
\* the Block of the call before
HashIds == {0, 1}
HashPreviousHashes == {GENESIS, <<>>}
HashTimestamps == {0, 1}
HashData == {HELLO, HELLO1, <<>>}
HashNonces == {0, 2, 12}

BlockHash ==
    /\ call = NoCall \/ (call.op = "hash" /\ call.pre = <<>>)
    /\ \E id \in HashIds, previous_hash \in HashPreviousHashes,
          timestamp \in HashTimestamps, data \in HashData, nonce \in HashNonces :
         call' = Called("hash",
                        MkBlock(id, Block_hash(id, previous_hash, timestamp, data, nonce),
                                previous_hash, timestamp, data, nonce),
                        IF call = NoCall THEN <<>> ELSE <<call.arg>>, "unit")
    /\ UNCHANGED <<blocks, panicked, build, genesis_calls, tampered, mined, order>>

SpecHash == Init /\ [][BlockHash]_vars

\* ------------------------------------------- validation of a stored chain
\* the chain may hold MaxStored blocks of any content
MaxStored == 3

StoredBlocks ==
    LET g == Block_new(0, GENESIS, GENESIS, 0)
        b1 == Block_new(1, g.hash, HELLO, 0)
        b2 == Block_new(2, b1.hash, HELLO, 1)
        top == Block_new(IdMax, b1.hash, HELLO, 0)
        zero == Block_new(0, top.hash, HELLO, 0)
        bare == [g EXCEPT !.nonce = g.nonce + 1,
                          !.hash = Block_hash(0, GENESIS, 0, GENESIS, g.nonce + 1)]
    IN  { g, b1, b2, top, zero, bare, Block_new(1, bare.hash, HELLO, 0),
          [b1 EXCEPT !.data = HELLO1],
          [b2 EXCEPT !.hash = Block_hash(2, b1.hash, 1, HELLO, 0), !.nonce = 0],
          [g EXCEPT !.timestamp = -1] }

RECURSIVE SeqsUpTo(_, _)
SeqsUpTo(S, n) ==
    IF n = 0 THEN {<<>>}
    ELSE LET shorter == SeqsUpTo(S, n - 1)
         IN  shorter \cup {Append(q, x) : q \in {r \in shorter : Len(r) = n - 1}, x \in S}

InitStored ==
    /\ blocks \in SeqsUpTo(StoredBlocks, MaxStored)
    /\ panicked = FALSE
    /\ build \in Builds
    /\ call = NoCall
    /\ genesis_calls = 0
    /\ tampered = "none"
    /\ mined = [m \in Miners |-> Idle]
    /\ order = <<>>

\* a call of is_block_valid on the pair at block_index - 1, block_index
IsBlockValid ==
    /\ ~panicked
    /\ \E block_index \in 2..Len(blocks) :
         \E r \in {is_block_valid_outcome(blocks[block_index], blocks[block_index - 1],
                                          build)} :
           /\ call' = Called("is_block_valid", blocks[block_index], blocks, r)
           /\ panicked' = (r = "panic")
    /\ UNCHANGED <<blocks, build, genesis_calls, tampered, mined, order>>

NextStored == IsChainValid \/ IsBlockValid

SpecStored == InitStored /\ [][NextStored]_vars

\* any caller of the chain's operations, is_block_valid included
NextOps == CreateGenesis \/ TryAddBlock \/ IsChainValid \/ IsBlockValid

SpecOps == Init /\ [][NextOps]_vars

\* ----------------------------------------------------------------- miners
\* main.rs:156-164: read the tip and mine the next block on it
Mine(m) ==
    /\ ~panicked
    /\ tampered = "none"
    /\ ~mined[m].ready
    /\ Len(blocks) < MaxLen
    /\ IF blocks = <<>> \/ (build = "debug" /\ add_one_overflows(Last(blocks).id))
       THEN panicked' = TRUE /\ UNCHANGED mined
       ELSE LET previous_block == Last(blocks)
            IN  \E timestamp \in Timestamps :
                  \E new_block \in {Block_new(wrapping_add_one(previous_block.id),
                                              previous_block.hash, HELLO, timestamp)} :
                    /\ mined' = [mined EXCEPT ![m] = [block |-> new_block,
                                                      base |-> Len(blocks),
                                                      ready |-> TRUE]]
                    /\ UNCHANGED panicked
    /\ UNCHANGED <<blocks, build, call, genesis_calls, tampered, order>>

\* main.rs:166: hand the mined block to try_add_block; the calls of the
\* miners are served one at a time
Submit(m) ==
    /\ ~panicked
    /\ mined[m].ready
    /\ try_add_block(mined[m].block)
    /\ mined' = [mined EXCEPT ![m] = Idle]
    /\ order' = Append(order, [miner |-> m, block |-> mined[m].block,
                               base |-> mined[m].base, tip |-> Last(blocks),
                               len_before |-> Len(blocks), len_after |-> Len(blocks'),
                               panicked |-> panicked'])
    /\ UNCHANGED tampered

FirstGenesis == blocks = <<>> /\ CreateGenesis

NextRace == FirstGenesis \/ (\E m \in Miners : Mine(m)) \/ (\E m \in Miners : Submit(m))

SpecRace == Init /\ [][NextRace]_vars

\* ------------------------------------------------------ the driver, main
\* an audit after every iteration
audit_due_always(len) == TRUE

\* main.rs:168
audit_due(len) == len % AuditPeriod = 0

\* one iteration of the loop of main, main.rs:155-171: read the tip, mine
\* its successor, hand it to try_add_block, audit when the length calls
\* for it.  The loop is entered after create_genesis has returned, and the
\* clock does not run backwards between two blocks.  `order`
\* gets one record per iteration; `audit` is the audit's result, "none"
\* when the iteration ran none.
MainLoop ==
    /\ ~panicked
    /\ genesis_calls = 1          \* main.rs:153 has run
    /\ Len(order) < MaxIterations
    /\ IF blocks = <<>>
       THEN /\ panicked' = TRUE
            /\ call' = Called("main", NoBlock, blocks, "panic")
            /\ UNCHANGED <<blocks, order>>
       ELSE LET previous_block == Last(blocks)
            IN  IF build = "debug" /\ add_one_overflows(previous_block.id)
                THEN /\ panicked' = TRUE
                     /\ call' = Called("main", NoBlock, blocks, "panic")
                     /\ UNCHANGED <<blocks, order>>
                ELSE \E timestamp \in {t \in Timestamps : t >= previous_block.timestamp} :
                     \E new_block \in {Block_new(wrapping_add_one(previous_block.id),
                                                 previous_block.hash, HELLO, timestamp)} :
                     \E r \in {is_block_valid_outcome(new_block, previous_block, build)} :
                     \E after \in {IF r = "true" THEN Append(blocks, new_block) ELSE blocks} :
                     \E a \in {IF r # "panic" /\ audit_due(Len(after))
                                THEN is_chain_valid(after, build) ELSE "none"} :
                        /\ blocks' = after
                        /\ panicked' = (r = "panic" \/ a = "panic")
                        /\ call' = IF a = "none"
                                   THEN Called("try_add_block", new_block, blocks,
                                               IF r = "panic" THEN "panic" ELSE "unit")
                                   ELSE Called("is_chain_valid", NoBlock, after, a)
                        /\ order' = Append(order,
                                           [block |-> new_block,
                                            len_before |-> Len(blocks),
                                            len_after |-> Len(after),
                                            accepted |-> r,
                                            audit |-> a])
    /\ UNCHANGED <<build, genesis_calls, tampered, mined>>

NextMain == FirstGenesis \/ MainLoop

\* main, main.rs:152-171
SpecMain == Init /\ [][NextMain]_vars

\* ------------------------------------------------------------- tampering
TamperValues(block, predecessor) ==
    [id |-> 0..IdMax,
     previous_hash |-> {GENESIS, <<>>, block.hash},
     timestamp |-> -1..(MaxTimestamp + 1),
     data |-> {HELLO, HELLO1, GENESIS, <<>>},
     nonce |-> 0..NonceMax,
     hash |-> {DIFFICULTY_PREFIX \o JUNK, predecessor.hash, <<>>,
               Block_hash(block.id, block.previous_hash, block.timestamp,
                          block.data, block.nonce + 1)}]

\* one field of block 1 of a valid 2-block chain is overwritten in place
\* with a different value; nothing is mined again
Tamper ==
    /\ ~panicked
    /\ tampered = "none"
    /\ genesis_calls = 1
    /\ Len(blocks) = 2
    /\ \E field \in {"id", "previous_hash", "timestamp", "data", "nonce", "hash"} :
         \E value \in TamperValues(blocks[2], blocks[1])[field] :
           /\ value # blocks[2][field]
           /\ blocks' = [blocks EXCEPT ![2][field] = value]
           /\ tampered' = field
    /\ UNCHANGED <<panicked, build, call, genesis_calls, mined, order>>

NextTamper ==
    FirstGenesis \/ Mine(1) \/ Submit(1) \/ Tamper \/ IsChainValid \/ IsBlockValid

SpecTamper == Init /\ [][NextTamper]_vars

\* -------------------------------------------------------------- properties
\* the four validity conditions of a candidate against a tip, stated on the
\* fields (ids as unbounded integers)
FourConditions(candidate, tip) ==
    /\ candidate.id = tip.id + 1
    /\ starts_with(candidate.hash, DIFFICULTY_PREFIX)
    /\ candidate.previous_hash = tip.hash
    /\ candidate.hash = Block_hash(candidate.id, candidate.previous_hash,
                                   candidate.timestamp, candidate.data, candidate.nonce)

\* C1: on a non-empty chain try_add_block appends the candidate iff the four
\* validity conditions hold against the last block; on success the length
\* grows by exactly 1 and the candidate is the new last block, on failure the
\* chain is as it was.
C1_AppendIffValid ==
    (call.op = "try_add_block" /\ call.pre # <<>>) =>
        LET ok == FourConditions(call.arg, Last(call.pre))
        IN  /\ ok <=> blocks = Append(call.pre, call.arg)
            /\ ok => Len(blocks) = Len(call.pre) + 1 /\ Last(blocks) = call.arg
            /\ ~ok => Len(blocks) = Len(call.pre) /\ blocks = call.pre
            /\ call.ret = "unit"

C1_Witness_Accepted ==
    /\ call.op = "try_add_block" /\ call.pre # <<>>
    /\ FourConditions(call.arg, Last(call.pre))
    /\ Len(blocks) = MaxLen

\* C2: after one create_genesis on a new chain and any number of
\* try_add_block calls, accepted or rejected, is_chain_valid returns true.
C2_BuiltChainValid ==
    genesis_calls = 1 => is_chain_valid(blocks, build) = "true"

C2_Witness ==
    /\ genesis_calls = 1
    /\ Len(blocks) = MaxLen
    /\ call.op = "is_chain_valid" /\ call.ret = "true"

\* C4: create_genesis appends a block with id 0, previous_hash "genesis",
\* data "genesis" and a hash that has the difficulty prefix and is the hash
\* of the block's own fields; on a new chain that block is the only one.
C4_GenesisWellFormed ==
    call.op = "create_genesis" =>
        LET g == Last(blocks)
        IN  /\ Len(blocks) = Len(call.pre) + 1
            /\ call.pre = <<>> => Len(blocks) = 1
            /\ g.id = 0 /\ g.previous_hash = GENESIS /\ g.data = GENESIS
            /\ starts_with(g.hash, DIFFICULTY_PREFIX)
            /\ g.hash = Block_hash(g.id, g.previous_hash, g.timestamp, g.data, g.nonce)

C4_Witness ==
    call.op = "create_genesis" /\ call.pre = <<>> /\ Len(blocks) = 1 /\ blocks[1].nonce > 0

\* C7: try_add_block on an empty chain aborts: it does not return, takes no
\* default predecessor and appends nothing.
C7_EmptyChainAborts ==
    (call.op = "try_add_block" /\ call.pre = <<>>) =>
        panicked /\ call.ret = "panic" /\ blocks = <<>> /\ ~ENABLED Next

C7_Witness ==
    call.op = "try_add_block" /\ call.pre = <<>> /\ panicked

\* C8 as claimed: is_chain_valid on an empty chain fails fast and returns no
\* validity result.
C8_AuditOfEmptyChainFails ==
    (call.op = "is_chain_valid" /\ call.pre = <<>>) => call.ret = "panic"

\* C8 amended: is_chain_valid on an empty chain does not fail; it returns
\* true and leaves the chain empty.
C8_AuditOfEmptyChainIsTrue ==
    (call.op = "is_chain_valid" /\ call.pre = <<>>) =>
        call.ret = "true" /\ ~panicked /\ blocks = <<>>

C8_Witness ==
    call.op = "is_chain_valid" /\ call.pre = <<>> /\ call.ret = "true"

\* C3: for any stored sequence is_chain_valid returns true iff is_block_valid
\* holds of every adjacent pair from index 1 on; it returns true for a chain
\* of one block.
C3_ChainValidIffPairsValid ==
    call.op = "is_chain_valid" =>
        /\ call.ret = "true" <=>
              \A i \in 2..Len(call.pre) :
                 is_block_valid_outcome(call.pre[i], call.pre[i - 1], build) = "true"
        /\ Len(call.pre) = 1 => call.ret = "true"

C3_Witness ==
    /\ call.op = "is_chain_valid" /\ call.ret = "false" /\ Len(call.pre) = MaxStored
    /\ is_block_valid_outcome(call.pre[2], call.pre[1], build) = "true"

\* C5: the pair mine returns has a digest with the difficulty prefix that is
\* the hash of the arguments and the returned nonce; a block built by
\* Block::new keeps its arguments and is valid in isolation.
C5_MinedPairValid ==
    (call.op \in {"mine", "Block::new"} /\ call.ret = "unit") =>
        LET b == call.arg
        IN  /\ starts_with(b.hash, DIFFICULTY_PREFIX)
            /\ b.hash = Block_hash(b.id, b.previous_hash, b.timestamp, b.data, b.nonce)
            /\ call.op = "Block::new" =>
                  /\ b.id = call.pre[1].id
                  /\ b.previous_hash = call.pre[1].previous_hash
                  /\ b.timestamp = call.pre[1].timestamp
                  /\ b.data = call.pre[1].data

C5_Witness ==
    call.op = "mine" /\ call.ret = "unit" /\ call.arg.nonce > 1 /\ call.arg.timestamp < 0

\* C6: in a valid 2-block chain, overwriting one field of block 1 with a
\* different value makes is_block_valid(block1, genesis) false and
\* is_chain_valid false.
C6_TamperDetected ==
    tampered # "none" =>
        /\ is_block_valid_outcome(blocks[2], blocks[1], build) = "false"
        /\ is_chain_valid(blocks, build) = "false"
        /\ (call.op = "is_chain_valid" /\ call.pre = blocks) => call.ret = "false"

C6_Witness ==
    /\ tampered = "data"
    /\ call.op = "is_chain_valid" /\ call.pre = blocks /\ call.ret = "false"

\* C9: of two blocks mined on the same tip whose try_add_block calls are
\* served one after the other, the first is appended and the second is
\* rejected (neither its id nor its previous_hash fits the new tip); the
\* chain grows by exactly 1 over two adjacent calls and no call fails.
C9_FirstWinsSecondDropped ==
    \A i, j \in DOMAIN order :
        (i < j /\ order[i].base = order[j].base) =>
            /\ order[i].len_after = order[i].len_before + 1
            /\ order[j].len_after = order[j].len_before
            /\ order[j].block.id # order[j].tip.id + 1
            /\ order[j].block.previous_hash # order[j].tip.hash
            /\ j = i + 1 => /\ order[j].tip = order[i].block
                            /\ order[j].len_after = order[i].len_before + 1
            /\ ~order[i].panicked /\ ~order[j].panicked

C9_Witness ==
    /\ Len(order) >= 2
    /\ order[1].base = order[2].base /\ order[1].miner = 2 /\ order[2].miner = 1
    /\ order[1].block # order[2].block
    /\ blocks = <<order[1].tip, order[1].block>>

\* a block as create_genesis builds it
IsGenesisBlock(b) ==
    /\ b.id = 0 /\ b.previous_hash = GENESIS /\ b.data = GENESIS
    /\ starts_with(b.hash, DIFFICULTY_PREFIX)
    /\ b.hash = Block_hash(b.id, b.previous_hash, b.timestamp, b.data, b.nonce)

GenesisIndexes == {i \in DOMAIN blocks : IsGenesisBlock(blocks[i])}

\* C11 as claimed: whatever the operations called, a chain that is not empty
\* holds exactly one genesis block, at index 0, and every later block meets
\* the four conditions against the block before it.
C11_ExactlyOneGenesis ==
    blocks # <<>> =>
        /\ GenesisIndexes = {1}
        /\ \A i \in 2..Len(blocks) : FourConditions(blocks[i], blocks[i - 1])

\* C11 amended: the chain is empty until create_genesis has run and then
\* starts with a genesis block; every later block either met the four
\* conditions against the block before it or is the genesis block of a
\* repeated create_genesis, pushed without validation; there is one genesis
\* block per create_genesis call, so exactly one, followed by validated
\* blocks only, when create_genesis ran once.
C11_OneGenesisPerCall ==
    /\ blocks = <<>> <=> genesis_calls = 0
    /\ blocks # <<>> => 1 \in GenesisIndexes
    /\ Cardinality(GenesisIndexes) = genesis_calls
    /\ \A i \in 2..Len(blocks) :
          FourConditions(blocks[i], blocks[i - 1]) \/ i \in GenesisIndexes
    /\ genesis_calls = 1 =>
          \A i \in 2..Len(blocks) : FourConditions(blocks[i], blocks[i - 1])
    /\ Len(blocks) <= Len(call.pre) + 1

C11_Witness ==
    /\ genesis_calls = 2 /\ Len(blocks) = 3
    /\ GenesisIndexes = {1, 2}
    /\ FourConditions(blocks[3], blocks[2])

\* C12: after one create_genesis on a new chain and any try_add_block
\* calls, every block's id is its index, so ids are unique and the last
\* block's id is the chain length minus 1.
C12_IdIsIndex ==
    genesis_calls = 1 =>
        /\ \A i \in DOMAIN blocks : blocks[i].id = i - 1
        /\ \A i, j \in DOMAIN blocks : blocks[i].id = blocks[j].id => i = j
        /\ Last(blocks).id = Len(blocks) - 1

C12_Witness ==
    /\ genesis_calls = 1 /\ Len(blocks) = MaxLen
    /\ call.op = "try_add_block" /\ blocks = Append(call.pre, call.arg)
    /\ call.arg.id = MaxLen - 1

IsPrefix(p, q) == Len(p) <= Len(q) /\ SubSeq(q, 1, Len(p)) = p

\* C13: the chain is append-only: over any step of create_genesis,
\* try_add_block, is_block_valid or is_chain_valid the block sequence before
\* is a prefix of the sequence after, so the length never decreases and no
\* stored block changes.
C13_AppendOnly ==
    [][/\ IsPrefix(blocks, blocks')
       /\ Len(blocks') <= Len(blocks) + 1]_vars

C13_Witness ==
    /\ Len(blocks) = MaxLen
    /\ call.op = "try_add_block" /\ IsPrefix(call.pre, blocks) /\ call.pre # blocks
    /\ GenesisIndexes = {1, 2}

\* C14: is_block_valid and is_chain_valid are read-only: whatever they
\* return, the chain after the call is the chain before it, and the blocks
\* is_block_valid was given are still the stored ones.
C14_ValidationReadOnly ==
    call.op \in {"is_block_valid", "is_chain_valid"} =>
        /\ blocks = call.pre
        /\ call.op = "is_block_valid" =>
              \E i \in 2..Len(blocks) :
                 /\ blocks[i] = call.arg
                 /\ call.ret = is_block_valid_outcome(blocks[i], blocks[i - 1], build)

C14_Witness ==
    /\ call.op = "is_chain_valid" /\ call.ret = "false"
    /\ blocks = call.pre /\ Len(blocks) = MaxStored
    /\ is_block_valid_outcome(blocks[2], blocks[1], build) = "false"

\* C15: mine returns the first nonce of the search from 0: no smaller nonce
\* gives a digest with the difficulty prefix.
C15_SmallestNonce ==
    (call.op = "mine" /\ call.ret = "unit") =>
        LET b == call.arg
        IN  \A n \in 0..(b.nonce - 1) :
               ~starts_with(Block_hash(b.id, b.previous_hash, b.timestamp, b.data, n),
                            DIFFICULTY_PREFIX)

C15_Witness ==
    /\ call.op = "mine" /\ call.ret = "unit"
    /\ call.arg.nonce = LeadRange - 1 /\ call.arg.data = HELLO1

\* the string Block::hash digests: the five fields, in order, no delimiters
Concatenation(b) ==
    FmtNat(b.id) \o b.previous_hash \o FmtInt(b.timestamp) \o b.data \o FmtNat(b.nonce)

\* C16: the digest depends on the five fields only through their
\* delimiter-free concatenation: two calls whose fields concatenate to the
\* same string (the same fields, or data "Hello" with nonce 12 and data
\* "Hello1" with nonce 2) return the same digest.
C16_SameStringSameDigest ==
    (call.op = "hash" /\ call.pre # <<>>) =>
        (Concatenation(call.arg) = Concatenation(call.pre[1])
            => call.arg.hash = call.pre[1].hash)

C16_Witness ==
    /\ call.op = "hash" /\ call.pre # <<>>
    /\ call.arg.data = HELLO /\ call.arg.nonce = 12
    /\ call.pre[1].data = HELLO1 /\ call.pre[1].nonce = 2
    /\ call.arg.hash = call.pre[1].hash

\* C17: in the loop of main every iteration's block is accepted: the
\* process has not aborted, each try_add_block found a non-empty chain, met
\* a block with id = tip.id + 1 and previous_hash = tip.hash, passed it and
\* made the chain exactly one block longer.
C17_DriverNeverRejected ==
    /\ ~panicked
    /\ blocks # <<>> => Len(blocks) = Len(order) + 1
    /\ \A i \in DOMAIN order :
          /\ order[i].len_before = i
          /\ order[i].len_after = order[i].len_before + 1
          /\ order[i].accepted = "true"
          /\ blocks[i + 1] = order[i].block
          /\ order[i].block.id = blocks[i].id + 1
          /\ order[i].block.previous_hash = blocks[i].hash

C17_Witness ==
    /\ Len(order) = MaxIterations
    /\ Len(blocks) = MaxIterations + 1
    /\ blocks[1].timestamp = 0
    /\ Last(blocks).timestamp = MaxTimestamp
    /\ Last(order).len_after = MaxIterations + 1

\* C18 as stated: the audit runs after the 10th, 20th, 30th ... append and
\* after no other (the appends counted without the genesis block).
C18_AuditAfterTenthAppend ==
    \A i \in DOMAIN order :
        (order[i].audit # "none") <=> ((order[i].len_after - 1) % AuditPeriod = 0)

\* C18, amended: the audit runs after an append exactly when the chain
\* length, genesis included, is a multiple of 10: after the 9th, 19th,
\* 29th ... append, ten appends apart, and every such audit returns true.
C18_AuditWhenLengthMultipleOfTen ==
    \A i \in DOMAIN order :
        /\ (order[i].audit # "none") <=> (order[i].len_after % AuditPeriod = 0)
        /\ (order[i].audit # "none") <=> (i % AuditPeriod = AuditPeriod - 1)
        /\ order[i].audit \in {"none", "true"}
        /\ (i = Len(order)) => ((call.op = "is_chain_valid") <=> (order[i].audit # "none"))

C18_Witness ==
    /\ Len(order) >= 2 * AuditPeriod
    /\ order[AuditPeriod - 1].audit = "true"
    /\ order[AuditPeriod].audit = "none"
    /\ order[2 * AuditPeriod - 1].audit = "true"
    /\ order[2 * AuditPeriod].audit = "none"

\* the first block with its id and stored hash kept and other fields
\* overwritten: one of timestamp, data, nonce, previous_hash, or all four
GenesisRewrites(g) ==
    {[g EXCEPT !.timestamp = t] : t \in (-1)..(MaxTimestamp + 1)}
    \cup {[g EXCEPT !.data = d] : d \in {GENESIS, HELLO, <<>>}}
    \cup {[g EXCEPT !.nonce = n] : n \in {0, g.nonce + 1, NonceMax}}
    \cup {[g EXCEPT !.previous_hash = p] : p \in {GENESIS, <<>>, g.hash}}
    \cup {[g EXCEPT !.timestamp = -1, !.data = <<>>, !.nonce = NonceMax,
                     !.previous_hash = g.hash]}

\* C19: is_chain_valid does not check the first block itself: its result is
\* the same for every chain that differs only in the first block's
\* timestamp, data, nonce or previous_hash (id and stored hash kept), and it
\* is true for a chain whose later pairs are all valid whatever the first
\* block's hash looks like.
C19_GenesisNotChecked ==
    (call.op = "is_chain_valid" /\ blocks # <<>>) =>
        /\ \A g \in GenesisRewrites(blocks[1]) :
              is_chain_valid([blocks EXCEPT ![1] = g], build) = call.ret
        /\ (\A i \in 2..Len(blocks) :
               is_block_valid_outcome(blocks[i], blocks[i - 1], build) = "true")
              => call.ret = "true"

C19_Witness ==
    /\ call.op = "is_chain_valid" /\ call.ret = "true"
    /\ Len(blocks) = 2
    /\ blocks[1].id = 0
    /\ ~starts_with(blocks[1].hash, DIFFICULTY_PREFIX)
    /\ blocks[2].previous_hash = blocks[1].hash
    /\ \E g \in GenesisRewrites(blocks[1]) :
          /\ g.hash # Block_hash(g.id, g.previous_hash, g.timestamp, g.data, g.nonce)
          /\ is_chain_valid(<<g, blocks[2]>>, build) = "true"
====
